---- MODULE Spec2Model ----
(***************************************************************************)
(* A model of eixx's mailbox dispatcher (basic_otp_mailbox.hxx, carried in *)
(* src/include/eixx/marshal/endian.hpp from line 97 on): do_deliver,       *)
(* close, break_links, async_receive and async_match, together with the    *)
(* asynchronous queue the mailbox sits on (the queue's own code is not     *)
(* part of the sources; it follows section 4.G of the specification).      *)
(***************************************************************************)
EXTENDS Integers, Sequences, FiniteSets, TLC

(***************************************************************************)
(* Bounds of the model.                                                    *)
(***************************************************************************)
\* number of remote pids that send messages to the mailbox
NumPids == 2
\* number of monitor references in use
NumRefs == 2
\* number of deliver calls in one behaviour
MaxDeliver == 2
\* number of close calls in one behaviour
MaxCloses == 2

Pids == 1..NumPids
Refs == 1..NumRefs
\* "no pid" / "no reference" / "null message pointer"
NoPid == 0
NoRef == 0
NullMsg == 0
Reasons == {"normal", "kill"}
\* atom() is the empty atom; a mailbox is registered under a name or not
EmptyAtom == ""
Names == {EmptyAtom, "mbox"}

(***************************************************************************)
(* transport_msg: the control-message types do_deliver switches on.        *)
(* SEND stands for every type that has no case of its own.                 *)
(***************************************************************************)
MsgTypes ==
    {"LINK", "UNLINK", "MONITOR_P", "DEMONITOR_P", "MONITOR_P_EXIT",
     "EXIT", "EXIT2", "EXIT_TT", "EXIT2_TT", "SEND"}
\* the types that carry a reference
RefTypes == {"MONITOR_P", "DEMONITOR_P", "MONITOR_P_EXIT"}
\* the exit types the specification names
ExitTypes == {"EXIT", "EXIT2", "EXIT_TT", "EXIT2_TT"}
\* the types whose case in do_deliver ends in "delete a_msg; return"
DropTypes == {"LINK", "UNLINK", "MONITOR_P", "DEMONITOR_P"}
\* the types whose case in do_deliver has a statement before push_back
OpTypes == DropTypes \cup {"MONITOR_P_EXIT", "EXIT2", "EXIT2_TT"}

\* Where dispatch raises a std::exception: nowhere, in the first statement
\* of the case (sender_pid(), get_ref(), insert, erase: nothing has changed
\* yet), or in the first push_back (the case's update is already done).
Excs == {"none", "op", "push"}

\* the messages a transport hands to deliver (id is given at delivery)
MsgsIn ==
    {m \in [type : MsgTypes, from : Pids, ref : Refs \cup {NoRef}] :
        (m.type \in RefTypes) <=> (m.ref # NoRef)}

ExcApplies(m, exc) ==
    \/ exc = "none"
    \/ exc = "op"   /\ m.type \in OpTypes
    \/ exc = "push" /\ m.type \notin DropTypes

VARIABLES
    m_links,        \* std::set<epid>: the linked pids
    m_monitors,     \* std::map<ref, epid>: m_monitors[r] = NoPid: no entry
    m_queue,        \* the queued messages, head first
    m_time_freed,   \* 0 while the mailbox is live
    m_name,         \* registered name, EmptyAtom when none
    pending,        \* the queue's registered dequeue
    delivered,      \* number of deliver calls so far (gives message ids)
    closes,         \* number of close calls so far
    node_calls,     \* the calls the latest call made on the node, in order
    run,            \* the handler invocation the latest call consisted of
    observed,       \* ids of the messages handed to a dequeue handler, in order
    last,           \* the latest call on the mailbox and its inputs
    atom_table,     \* the interned byte strings: atom_table[i] has index i
    call,           \* the latest call on an atom or a port, with its result
    handles,        \* the port objects: whether alive, and their m_blob
    blobs           \* the shared bodies: reference count, times destroyed

vars == <<m_links, m_monitors, m_queue, m_time_freed, m_name, pending,
          delivered, closes, node_calls, run, observed, last,
          atom_table, call, handles, blobs>>

mbox_vars == <<m_links, m_monitors, m_queue, m_time_freed, m_name, pending,
               delivered, closes, node_calls, run, observed, last>>

NoCall == [op |-> "none"]

\* number of port objects, and of bodies that can be allocated
NumHandles == 3
MaxBlobs == 2

\* the port objects of the program and the bodies it can allocate
Handles == 1..NumHandles
Blobs == 1..MaxBlobs
nullptr == 0
\* a port object that is not constructed, or destroyed
NoHandle == [live |-> FALSE, m_blob |-> nullptr]
\* a body that is not allocated
NoBlob == [alloc |-> FALSE, rc |-> 0, freed |-> 0]

NoPending == [state |-> "none", kind |-> "none", repeat |-> 0]
NoRun == [kind |-> "none", ec |-> "none", msg |-> NullMsg, freed |-> 0,
          outcome |-> "none", called |-> "none", arg |-> NullMsg,
          res |-> FALSE, deleted |-> FALSE, a_msg |-> NullMsg,
          events |-> <<>>]
\* what last holds for a call that is not given a message
NoMsg == [id |-> NullMsg, type |-> "none", from |-> NoPid, ref |-> NoRef,
          err |-> FALSE]
NoLast == [op |-> "init", msg |-> NoMsg, exc |-> "none",
           reason |-> "none", dereg |-> FALSE]

Init ==
    /\ m_links = {}
    /\ m_monitors = [r \in Refs |-> NoPid]
    /\ m_queue = <<>>
    /\ m_time_freed = 0
    /\ m_name \in Names
    /\ pending = NoPending
    /\ delivered = 0
    /\ closes = 0
    /\ node_calls = <<>>
    /\ run = NoRun
    /\ observed = <<>>
    /\ last = NoLast
    /\ atom_table = <<>>
    /\ call = NoCall
    /\ handles = [h \in Handles |-> NoHandle]
    /\ blobs = [b \in Blobs |-> NoBlob]

(***************************************************************************)
(* do_deliver                                                              *)
(***************************************************************************)
\* The message deliver is called with. The queue holds pointers to messages:
\* id stands for the pointer, and of the fields behind it the model keeps
\* the type and the error flag in the queue (nothing reads sender or
\* reference of a message once do_deliver has returned).
transport_msg(id, mi) ==
    [id |-> id, type |-> mi.type, from |-> mi.from, ref |-> mi.ref,
     err |-> FALSE]

set_error_flag(m) == [m EXCEPT !.err = TRUE]

\* the queue's entry for message m
queued(m) == [id |-> m.id, type |-> m.type, err |-> m.err]

push_back(q, m) == Append(q, queued(m))

\* do_deliver_links with an UNLINK that clears the whole set
do_deliver_links_clear(l, m, exc) ==
    IF exc = "op" THEN l
    ELSE CASE m.type = "LINK"                 -> l \cup {m.from}
           [] m.type = "UNLINK"               -> {}
           [] m.type \in {"EXIT2", "EXIT2_TT"} -> l \ {m.from}
           [] OTHER                           -> l

\* m_links after do_deliver(m)
do_deliver_links(l, m, exc) ==
    IF exc = "op" THEN l
    ELSE CASE m.type = "LINK"                 -> l \cup {m.from}
           [] m.type = "UNLINK"               -> l \ {m.from}
           [] m.type \in {"EXIT2", "EXIT2_TT"} -> l \ {m.from}
           [] OTHER                           -> l

\* do_deliver_monitors with a MONITOR_P_EXIT that leaves the entry in place
do_deliver_monitors_keep(mon, m, exc) ==
    IF exc = "op" THEN mon
    ELSE CASE m.type = "MONITOR_P" ->
                IF mon[m.ref] = NoPid THEN [mon EXCEPT ![m.ref] = m.from]
                ELSE mon
           [] m.type = "DEMONITOR_P" -> [mon EXCEPT ![m.ref] = NoPid]
           [] OTHER -> mon

\* m_monitors after do_deliver(m); std::map::insert keeps an existing entry
do_deliver_monitors(mon, m, exc) ==
    IF exc = "op" THEN mon
    ELSE CASE m.type = "MONITOR_P" ->
                IF mon[m.ref] = NoPid THEN [mon EXCEPT ![m.ref] = m.from]
                ELSE mon
           [] m.type \in {"DEMONITOR_P", "MONITOR_P_EXIT"} ->
                [mon EXCEPT ![m.ref] = NoPid]
           [] OTHER -> mon

\* do_deliver_queue that puts a message at the head of the queue
do_deliver_queue_front(q, m, exc) ==
    IF exc # "none" THEN <<queued(set_error_flag(m))>> \o q
    ELSE IF m.type \in DropTypes THEN q
    ELSE <<queued(m)>> \o q

\* do_deliver_queue whose catch block covers only the cases that enqueue
do_deliver_queue_lose(q, m, exc) ==
    IF m.type \in DropTypes THEN q
    ELSE IF exc # "none" THEN push_back(q, set_error_flag(m))
    ELSE push_back(q, m)

\* m_queue after do_deliver(m)
do_deliver_queue(q, m, exc) ==
    IF exc # "none" THEN push_back(q, set_error_flag(m))
    ELSE IF m.type \in DropTypes THEN q
    ELSE push_back(q, m)

do_deliver(mi, exc) ==
    /\ ExcApplies(mi, exc)
    /\ LET m == transport_msg(delivered + 1, mi)
       IN /\ m_links' = do_deliver_links(m_links, m, exc)
          /\ m_monitors' = do_deliver_monitors(m_monitors, m, exc)
          /\ m_queue' = do_deliver_queue(m_queue, m, exc)
          /\ last' = [op |-> "deliver", msg |-> m, exc |-> exc,
                      reason |-> "none", dereg |-> FALSE]
    /\ delivered' = delivered + 1
    /\ node_calls' = <<>>
    /\ run' = NoRun
    /\ UNCHANGED <<m_time_freed, m_name, pending, closes, observed,
                   atom_table, call, handles, blobs>>

(***************************************************************************)
(* The queue (section 4.G): a FIFO with one registered dequeue at a time.  *)
(* reset() drops the queued messages and cancels a pending dequeue; the    *)
(* cancellation reaches the registered handler as a callback of its own.   *)
(***************************************************************************)
RepeatCounts == {1, 2, -1}

queue_reset(p) ==
    IF p.state = "armed" THEN [p EXCEPT !.state = "cancelled"] ELSE p

\* the registration after a handler returned res
queue_rearm(p, ec, res) ==
    IF ec # "aborted" /\ res /\ (p.repeat = -1 \/ p.repeat > 1)
    THEN [p EXCEPT !.repeat = IF @ = -1 THEN -1 ELSE @ - 1]
    ELSE NoPending

(***************************************************************************)
(* close and break_links                                                   *)
(***************************************************************************)
\* std::chrono::system_clock::now() at the next close: past the epoch, and
\* later than at the close before
system_clock_now == closes + 1

Min(S) == CHOOSE x \in S : \A y \in S : x <= y

\* close_view of a close that runs break_links first
close_view_late(t) ==
    [freed |-> m_time_freed, queued |-> Len(m_queue),
     armed |-> pending.state = "armed"]

\* The mailbox as the node finds it while close calls it: the timestamp is
\* set and the queue reset before close_mailbox and break_links run.
close_view(t) == [freed |-> t, queued |-> 0, armed |-> FALSE]

\* break_links_exits with the try around the loop: the first failure ends it
RECURSIVE break_links_exits_abort(_, _, _, _)
break_links_exits_abort(l, reason, fail, view) ==
    IF l = {} THEN <<>>
    ELSE LET p == Min(l)
         IN <<[call |-> "send_exit", to |-> p, ref |-> NoRef,
               reason |-> reason, ok |-> p \notin fail, view |-> view]>>
            \o (IF p \in fail THEN <<>>
                ELSE break_links_exits_abort(l \ {p}, reason, fail, view))

\* first loop of break_links: one send_exit per linked pid, in set order;
\* fail is the set of pids for which send_exit throws
RECURSIVE break_links_exits(_, _, _, _)
break_links_exits(l, reason, fail, view) ==
    IF l = {} THEN <<>>
    ELSE LET p == Min(l)
         IN <<[call |-> "send_exit", to |-> p, ref |-> NoRef,
               reason |-> reason, ok |-> p \notin fail, view |-> view]>>
            \o break_links_exits(l \ {p}, reason, fail, view)

\* second loop of break_links: one send_monitor_exit per monitor entry, in
\* key order; fail is the set of refs for which send_monitor_exit throws
RECURSIVE break_links_monitors(_, _, _, _, _)
break_links_monitors(mon, rs, reason, fail, view) ==
    IF rs = {} THEN <<>>
    ELSE LET r == Min(rs)
         IN <<[call |-> "send_monitor_exit", to |-> mon[r], ref |-> r,
               reason |-> reason, ok |-> r \notin fail, view |-> view]>>
            \o break_links_monitors(mon, rs \ {r}, reason, fail, view)

MonitorRefs(mon) == {r \in DOMAIN mon : mon[r] # NoPid}

\* break_links without its second loop
break_links_no_monitors(l, mon, reason, failExit, failMon, view) ==
    break_links_exits(l, reason, failExit, view)

\* the node calls of break_links, in order
break_links(l, mon, reason, failExit, failMon, view) ==
    break_links_exits(l, reason, failExit, view)
    \o break_links_monitors(mon, MonitorRefs(mon), reason, failMon, view)

\* m_node.close_mailbox(this), made only if a_reg_remove
close_mailbox(dereg, view) ==
    IF dereg
    THEN <<[call |-> "close_mailbox", to |-> NoPid, ref |-> NoRef,
            reason |-> "none", ok |-> TRUE, view |-> view]>>
    ELSE <<>>

\* close that leaves the queue alone
close_queue_kept(p) == p

\* m_queue->reset() in close, as the registered dequeue sees it
close_queue(p) == queue_reset(p)

close(reason, dereg, failExit, failMon) ==
    LET t == system_clock_now
    IN /\ m_time_freed' = t
       /\ m_queue' = <<>>
       /\ pending' = close_queue(pending)
       /\ node_calls' = close_mailbox(dereg, close_view(t))
                        \o break_links(m_links, m_monitors, reason,
                                       failExit, failMon, close_view(t))
       /\ m_links' = {}
       /\ m_monitors' = [r \in Refs |-> NoPid]
       /\ m_name' = EmptyAtom
       /\ closes' = closes + 1
       /\ last' = [op |-> "close", msg |-> NoMsg, exc |-> "none",
                   reason |-> reason, dereg |-> dereg]
       /\ run' = NoRun
       /\ UNCHANGED <<delivered, observed, atom_table, call, handles, blobs>>

(***************************************************************************)
(* async_receive and async_match                                           *)
(***************************************************************************)
\* the check both dequeue handlers start with: TRUE makes them return false
handler_returns_early(freed) == freed = 0

\* What a user callback does when it is called: ret is what h returns,
\* takes says that h keeps the message and sets the pointer it was given by
\* reference to nullptr, throws that it raises an exception (before it
\* returns anything).
Callbacks == [ret : BOOLEAN, takes : BOOLEAN, throws : BOOLEAN]

\* the lambda returns res
returned(res, called, arg, deleted, a_msg, steps) ==
    [outcome |-> "returned", res |-> res, called |-> called, arg |-> arg,
     deleted |-> deleted, a_msg |-> a_msg, steps |-> steps]

\* an exception of the callback leaves the lambda: nothing after the call
\* is run
thrown(called, arg, a_msg) ==
    [outcome |-> "thrown", res |-> FALSE, called |-> called, arg |-> arg,
     deleted |-> FALSE, a_msg |-> a_msg, steps |-> <<called, "throw">>]

\* the call through a dangling reference ends the process
killed(called, arg, a_msg) ==
    [outcome |-> "killed", res |-> FALSE, called |-> called, arg |-> arg,
     deleted |-> FALSE, a_msg |-> a_msg, steps |-> <<called, "killed">>]

\* lines 156-168 of the async_receive lambda with the callback h = cb
async_receive_body(msg, ec, cb) ==
    IF ec # "ok"
    THEN IF cb.throws THEN thrown("h", NullMsg, msg)
         ELSE returned(cb.ret, "h", NullMsg, FALSE, msg, <<"h">>)
    ELSE LET p == IF cb.takes THEN NullMsg ELSE msg
         IN IF cb.throws THEN thrown("h", msg, p)
            ELSE returned(cb.ret, "h", msg, p # NullMsg, NullMsg,
                          IF p # NullMsg THEN <<"h", "delete">>
                          ELSE <<"h">>)

\* The lambda async_receive registers; msg is a message id or NullMsg, cb is
\* what the user's handler h does when it is called, alive tells whether
\* the object the captured reference &h refers to still exists. The result
\* is the set of the outcomes the call can have: a_msg is the caller's
\* pointer when the lambda is left, steps the calls it made in order. A
\* call through a dangling reference is undefined: it can end the process
\* or go on as any callback would.
async_receive_handler(freed, msg, ec, cb, alive) ==
    IF handler_returns_early(freed)
    THEN {returned(FALSE, "none", NullMsg, FALSE, msg, <<>>)}
    ELSE IF alive
    THEN {async_receive_body(msg, ec, cb)}
    ELSE {killed("h", IF ec # "ok" THEN NullMsg ELSE msg, msg)}
         \cup {async_receive_body(msg, ec, c) : c \in Callbacks}

\* lines 187-197 of the async_match lambda; cb.throws is an exception of
\* a_on_timeout resp. of a_matcher.match
async_match_body(msg, ec, cb) ==
    IF ec # "ok"
    THEN IF cb.throws THEN thrown("on_timeout", NullMsg, msg)
         ELSE returned(FALSE, "on_timeout", NullMsg, FALSE, msg,
                       <<"on_timeout">>)
    ELSE IF msg = NullMsg
    THEN returned(TRUE, "none", msg, FALSE, NullMsg, <<>>)
    ELSE IF cb.throws THEN thrown("match", msg, msg)
    ELSE returned(TRUE, "match", msg, TRUE, NullMsg, <<"match", "delete">>)

\* The lambda async_match registers; t_alive and m_alive tell whether the
\* objects behind &a_on_timeout and &a_matcher still exist.
async_match_handler(freed, msg, ec, cb, t_alive, m_alive) ==
    IF handler_returns_early(freed)
    THEN {returned(FALSE, "none", NullMsg, FALSE, msg, <<>>)}
    ELSE IF ec # "ok" /\ ~t_alive
    THEN {killed("on_timeout", NullMsg, msg)}
         \cup {async_match_body(msg, ec, c) : c \in Callbacks}
    ELSE IF ec = "ok" /\ msg # NullMsg /\ ~m_alive
    THEN {killed("match", msg, msg)}
         \cup {async_match_body(msg, ec, c) : c \in Callbacks}
    ELSE {async_match_body(msg, ec, cb)}

\* The lambda keeps references to the caller's h, or a_on_timeout and
\* a_matcher: whether these objects still exist is a fact of the moment the
\* queue runs the lambda (they are gone if they were temporaries).
async_receive(repeat) ==
    /\ pending.state = "none"
    /\ pending' = [state |-> "armed", kind |-> "receive", repeat |-> repeat]
    /\ last' = [op |-> "async_receive", msg |-> NoMsg, exc |-> "none",
                reason |-> "none", dereg |-> FALSE]
    /\ node_calls' = <<>>
    /\ run' = NoRun
    /\ UNCHANGED <<m_links, m_monitors, m_queue, m_time_freed, m_name,
                   delivered, closes, observed, atom_table, call, handles, blobs>>

async_match(repeat) ==
    /\ pending.state = "none"
    /\ pending' = [state |-> "armed", kind |-> "match", repeat |-> repeat]
    /\ last' = [op |-> "async_match", msg |-> NoMsg, exc |-> "none",
                reason |-> "none", dereg |-> FALSE]
    /\ node_calls' = <<>>
    /\ run' = NoRun
    /\ UNCHANGED <<m_links, m_monitors, m_queue, m_time_freed, m_name,
                   delivered, closes, observed, atom_table, call, handles, blobs>>

\* The scheduler runs the registered handler: with the head of the queue
\* (ec = "ok"), with no message when the timeout elapses on an empty queue
\* (ec = "timeout"), or with the cancellation of a reset (ec = "aborted").
\* The handler's outcome is one of those it can have for some behaviour of
\* the user's callback and some state of the objects it refers to.
dequeue(ec) ==
    /\ CASE ec = "ok"      -> pending.state = "armed" /\ m_queue # <<>>
         [] ec = "timeout" -> pending.state = "armed" /\ m_queue = <<>>
         [] ec = "aborted" -> pending.state = "cancelled"
    /\ LET msg == IF ec = "ok" THEN Head(m_queue).id ELSE NullMsg
           outs == IF pending.kind = "receive"
                   THEN UNION {async_receive_handler(m_time_freed, msg, ec,
                                                     cb, h_alive) :
                                cb \in Callbacks, h_alive \in BOOLEAN}
                   ELSE UNION {async_match_handler(m_time_freed, msg, ec,
                                                   cb, x[1], x[2]) :
                                cb \in Callbacks,
                                x \in BOOLEAN \X BOOLEAN}
       IN \E out \in outs :
          /\ run' = [kind |-> pending.kind, ec |-> ec, msg |-> msg,
                     freed |-> m_time_freed, outcome |-> out.outcome,
                     called |-> out.called,
                     arg |-> out.arg, res |-> out.res,
                     deleted |-> out.deleted, a_msg |-> out.a_msg,
                     events |-> out.steps]
          /\ pending' = queue_rearm(pending, ec, out.res)
    /\ m_queue' = IF ec = "ok" THEN Tail(m_queue) ELSE m_queue
    /\ observed' = IF ec = "ok" THEN Append(observed, Head(m_queue).id)
                   ELSE observed
    /\ last' = [op |-> "dequeue", msg |-> NoMsg, exc |-> "none",
                reason |-> "none", dereg |-> FALSE]
    /\ node_calls' = <<>>
    /\ UNCHANGED <<m_links, m_monitors, m_time_freed, m_name, delivered,
                   closes, atom_table, call, handles, blobs>>

(***************************************************************************)
(* Specifications                                                          *)
(***************************************************************************)
\* the process has not been ended by a call through a dangling reference
Running == run.outcome # "killed"

Deliver ==
    /\ delivered < MaxDeliver
    /\ \E mi \in MsgsIn, exc \in Excs : do_deliver(mi, exc)

\* only a destination that is called can fail
Close ==
    /\ Running
    /\ closes < MaxCloses
    /\ \E reason \in Reasons, dereg \in BOOLEAN,
          failExit \in SUBSET m_links,
          failMon \in SUBSET MonitorRefs(m_monitors) :
            close(reason, dereg, failExit, failMon)

\* the dispatcher alone: every message type, with and without exceptions
Next == Deliver \/ Close

Spec == Init /\ [][Next]_vars

\* The dispatcher with a consumer: deliveries without exceptions of a
\* dropped control message (LINK, MONITOR_P) or of a queued message (SEND,
\* EXIT2), and the receive helpers with the scheduler's callbacks.
MaxRecvDeliver == 3

RecvMsgsIn ==
    {m \in MsgsIn : /\ m.type \in {"LINK", "MONITOR_P", "SEND", "EXIT2"}
                    /\ m.ref \in {NoRef, 1}}

DeliverRecv ==
    /\ Running
    /\ delivered < MaxRecvDeliver
    /\ \E mi \in RecvMsgsIn : do_deliver(mi, "none")

AsyncReceive ==
    /\ Running
    /\ \E repeat \in RepeatCounts : async_receive(repeat)

AsyncMatch ==
    /\ Running
    /\ \E repeat \in RepeatCounts : async_match(repeat)

Dequeue ==
    /\ Running
    /\ \E ec \in {"ok", "timeout", "aborted"} : dequeue(ec)

NextRecv == DeliverRecv \/ Close \/ AsyncReceive \/ AsyncMatch \/ Dequeue

SpecRecv == Init /\ [][NextRecv]_vars

(***************************************************************************)
(* Properties of the dispatcher                                            *)
(***************************************************************************)
\* a step that is a call of close / a normal call of deliver
CloseStep == closes' = closes + 1
DeliverStep == delivered' = delivered + 1
Queued(id) == {i \in DOMAIN m_queue : m_queue[i].id = id}
CallsOf(calls, c) == {i \in DOMAIN calls : calls[i].call = c}
Sends(calls) == CallsOf(calls, "send_exit") \cup CallsOf(calls, "send_monitor_exit")

\* C1: every close calls send_exit exactly once, with its reason, for each
\* pid that is in the link set when it starts, and send_monitor_exit
\* exactly once, with its reason, for each (ref, pid) entry that is in the
\* monitor map when it starts; it makes no other send_exit or
\* send_monitor_exit call. This holds of a second close as well.
C1_CloseNotifiesEachOnce ==
    [][CloseStep =>
        /\ \A p \in Pids :
             Cardinality({i \in CallsOf(node_calls', "send_exit") :
                            node_calls'[i].to = p})
               = IF p \in m_links THEN 1 ELSE 0
        /\ \A r \in Refs, p \in Pids :
             Cardinality({i \in CallsOf(node_calls', "send_monitor_exit") :
                            node_calls'[i].ref = r /\ node_calls'[i].to = p})
               = IF m_monitors[r] = p THEN 1 ELSE 0
        /\ \A i \in Sends(node_calls') :
             /\ node_calls'[i].reason = last'.reason
             /\ node_calls'[i].to \in Pids
             /\ node_calls'[i].call = "send_monitor_exit"
                  => node_calls'[i].ref \in Refs
      ]_vars

\* C1 witness: a close has just notified a linked pid and a monitor
C1_Witness ==
    /\ last.op = "close"
    /\ CallsOf(node_calls, "send_exit") # {}
    /\ CallsOf(node_calls, "send_monitor_exit") # {}

IdsOf(q) == [i \in DOMAIN q |-> q[i].id]
Increasing(ids) == \A i, j \in DOMAIN ids : i < j => ids[i] < ids[j]

\* C2: the messages handed to the consumer so far, followed by the messages
\* in the queue from head to tail, are in the order of their delivery
\* (ids are given in delivery order), whatever was dropped in between.
C2_DeliveryOrderKept == Increasing(observed \o IdsOf(m_queue))

\* C2 witness: the consumer has been handed two messages that were delivered
\* with a dropped control message in between
C2_Witness ==
    /\ Len(observed) = 2
    /\ observed[2] = observed[1] + 2

\* C3: a deliver of LINK from p that raises nothing leaves p in the link
\* set, one of UNLINK leaves p out of it; the membership of every other pid
\* and the queue are unchanged.
C3_LinkUnlink ==
    [][(DeliverStep /\ last'.exc = "none"
                    /\ last'.msg.type \in {"LINK", "UNLINK"}) =>
        /\ last'.msg.type = "LINK" => last'.msg.from \in m_links'
        /\ last'.msg.type = "UNLINK" => last'.msg.from \notin m_links'
        /\ \A q \in Pids \ {last'.msg.from} :
             (q \in m_links') <=> (q \in m_links)
        /\ m_queue' = m_queue
      ]_vars

\* C3 witness: an UNLINK has just been delivered while another pid is linked
C3_Witness ==
    /\ last.op = "deliver"
    /\ last.exc = "none"
    /\ last.msg.type = "UNLINK"
    /\ m_links # {}
    /\ m_queue = <<>>

\* C4 as stated: after a deliver of MONITOR_P with reference r from p the
\* map maps r to p, whatever it held before, and the message is not queued;
\* after DEMONITOR_P or MONITOR_P_EXIT with reference r there is no entry
\* for r; DEMONITOR_P is not queued and MONITOR_P_EXIT is.
C4_Original ==
    (last.op = "deliver" /\ last.exc = "none") =>
        /\ last.msg.type = "MONITOR_P" =>
             /\ m_monitors[last.msg.ref] = last.msg.from
             /\ Queued(last.msg.id) = {}
        /\ last.msg.type = "DEMONITOR_P" =>
             /\ m_monitors[last.msg.ref] = NoPid
             /\ Queued(last.msg.id) = {}
        /\ last.msg.type = "MONITOR_P_EXIT" =>
             /\ m_monitors[last.msg.ref] = NoPid
             /\ Queued(last.msg.id) = {Len(m_queue)}

\* C4 amended: a deliver of MONITOR_P with reference r from p that raises
\* nothing maps r to p when r had no entry and keeps the entry of r when it
\* had one; after DEMONITOR_P or MONITOR_P_EXIT with reference r there is
\* no entry for r; the entries of the other references are unchanged;
\* MONITOR_P and DEMONITOR_P leave the queue unchanged and MONITOR_P_EXIT
\* is appended to it.
C4_MonitorInsertKeeps ==
    [][(DeliverStep /\ last'.exc = "none" /\ last'.msg.type \in RefTypes) =>
        LET m == last'.msg IN
        /\ m.type = "MONITOR_P" =>
             /\ m_monitors'[m.ref] =
                  IF m_monitors[m.ref] = NoPid THEN m.from
                  ELSE m_monitors[m.ref]
             /\ m_queue' = m_queue
        /\ m.type = "DEMONITOR_P" =>
             /\ m_monitors'[m.ref] = NoPid
             /\ m_queue' = m_queue
        /\ m.type = "MONITOR_P_EXIT" =>
             /\ m_monitors'[m.ref] = NoPid
             /\ m_queue' = Append(m_queue, queued(m))
        /\ \A r \in Refs \ {m.ref} : m_monitors'[r] = m_monitors[r]
      ]_vars

\* C4 witness: a MONITOR_P has just been delivered for a reference that is
\* held by another sender
C4_Witness ==
    /\ last.op = "deliver"
    /\ last.exc = "none"
    /\ last.msg.type = "MONITOR_P"
    /\ m_monitors[last.msg.ref] \notin {NoPid, last.msg.from}

\* C5: after a deliver of EXIT, EXIT2, EXIT_TT or EXIT2_TT from p that
\* raises nothing, p is not in the link set and the message is at the tail
\* of the queue.
C5_ExitUnlinks ==
    (last.op = "deliver" /\ last.exc = "none"
                         /\ last.msg.type \in ExitTypes) =>
        /\ last.msg.from \notin m_links
        /\ Queued(last.msg.id) = {Len(m_queue)}

\* C6: after a deliver whose dispatch raised an exception, whatever the
\* message type, the message is in the queue exactly once, unchanged but
\* for its error flag, which is set.
C6_ExceptionKeepsMessage ==
    (last.op = "deliver" /\ last.exc # "none") =>
        /\ Cardinality(Queued(last.msg.id)) = 1
        /\ \A i \in Queued(last.msg.id) :
             m_queue[i] = queued([last.msg EXCEPT !.err = TRUE])

\* C6 witness: the dispatch of a LINK has just raised an exception
C6_Witness ==
    /\ last.op = "deliver"
    /\ last.exc = "op"
    /\ last.msg.type = "LINK"
    /\ Len(m_queue) = 2

\* C7: when close returns the freed timestamp is not 0, the queue holds no
\* message and no armed dequeue, the link set and the monitor map are
\* empty, the name is the empty atom, and close_mailbox was called once if
\* deregister is true and not at all otherwise; each send_exit and
\* send_monitor_exit call finds the timestamp set and the queue reset.
C7_CloseTearsDown ==
    last.op = "close" =>
        /\ m_time_freed # 0
        /\ m_queue = <<>>
        /\ pending.state # "armed"
        /\ m_links = {}
        /\ MonitorRefs(m_monitors) = {}
        /\ m_name = EmptyAtom
        /\ Cardinality(CallsOf(node_calls, "close_mailbox"))
             = IF last.dereg THEN 1 ELSE 0
        /\ \A i \in Sends(node_calls) :
             /\ node_calls[i].view.freed = m_time_freed
             /\ node_calls[i].view.queued = 0
             /\ ~node_calls[i].view.armed

\* C7 witness: a close with deregister has just torn down a named mailbox
\* that had a link and a dequeue pending
C7_Witness ==
    /\ last.op = "close"
    /\ last.dereg
    /\ closes = 1
    /\ pending.state = "cancelled"
    /\ CallsOf(node_calls, "send_exit") # {}

\* C8: when send_exit or send_monitor_exit fails for a destination during
\* close, every linked pid and every monitor is still called, and the link
\* set, the monitor map and the name are cleared.
C8_BroadcastFailureSwallowed ==
    [][(CloseStep /\ \E i \in Sends(node_calls') : ~node_calls'[i].ok) =>
        /\ \A p \in m_links :
             \E i \in CallsOf(node_calls', "send_exit") :
                node_calls'[i].to = p
        /\ \A r \in MonitorRefs(m_monitors) :
             \E i \in CallsOf(node_calls', "send_monitor_exit") :
                node_calls'[i].ref = r /\ node_calls'[i].to = m_monitors[r]
        /\ m_links' = {}
        /\ MonitorRefs(m_monitors') = {}
        /\ m_name' = EmptyAtom
        /\ last'.op = "close"
      ]_vars

\* C8 witness: the first send_exit of a close failed and a later one was made
C8_Witness ==
    /\ last.op = "close"
    /\ Len(node_calls) >= 2
    /\ node_calls[1].call = "send_exit"
    /\ ~node_calls[1].ok
    /\ node_calls[Len(node_calls)].ok

\* C9: a dequeue handler of async_receive or async_match that runs on a
\* closed mailbox (freed timestamp not 0) returns false, and one that runs
\* on a live mailbox (freed timestamp 0) goes on to the user's callback.
C9_ClosedCheck ==
    run.kind # "none" =>
        /\ run.freed # 0 => ~run.res
        /\ run.freed = 0 => run.called # "none"

\* C10: on a live mailbox the async_receive handler passes a dequeued
\* message to the user's handler as a non-null message, and calls the
\* user's handler with a null message on a timeout.
C10_ReceivePassesMessage ==
    (run.kind = "receive" /\ run.freed = 0) =>
        /\ run.called = "h"
        /\ run.ec = "ok" => (run.arg = run.msg /\ run.arg # NullMsg)
        /\ run.ec = "timeout" => run.arg = NullMsg

\* The consumer side alone: deliveries of one kind of queued message, close,
\* the receive helpers and the scheduler's callbacks. The scheduler does not
\* withhold for ever a callback that is due and that ends or uses up a
\* registration.
CancelMsgsIn == {m \in MsgsIn : m.type = "SEND" /\ m.ref = NoRef}

DeliverCancel ==
    /\ Running
    /\ delivered < MaxRecvDeliver
    /\ \E mi \in CancelMsgsIn : do_deliver(mi, "none")

NextCancel ==
    DeliverCancel \/ Close \/ AsyncReceive \/ AsyncMatch \/ Dequeue

SpecCancel == Init /\ [][NextCancel]_vars /\ WF_pending(Dequeue)

\* a step that is a callback of the registered dequeue handler
DequeueStep == last'.op = "dequeue"

\* C11: a dequeue that is pending when close runs is cancelled: close turns
\* it into a cancellation, the registered handler is then invoked with the
\* cancellation and no message, that happens (eventually, and) once, after
\* which the registration is gone, so that no further callback of it fires;
\* a cancellation is delivered only to a dequeue that a close has cancelled.
C11_CancelledOnce ==
    /\ [][/\ CloseStep => /\ pending'.state # "armed"
                          /\ pending.state = "armed" =>
                                pending' = [pending EXCEPT !.state = "cancelled"]
          /\ (pending.state = "cancelled" /\ DequeueStep) =>
                /\ run'.kind = pending.kind
                /\ run'.ec = "aborted"
                /\ run'.msg = NullMsg
                /\ run'.arg = NullMsg
                /\ pending' = NoPending
          /\ (pending.state = "cancelled" /\ ~DequeueStep) => pending' = pending
          /\ (DequeueStep /\ run'.ec = "aborted") => pending.state = "cancelled"
         ]_vars
    /\ (pending.state = "cancelled") ~> (pending.state = "none")

\* a close has cancelled an armed dequeue and the cancellation has been
\* delivered to its handler, which has returned
C11_Witness ==
    /\ m_time_freed # 0
    /\ run.ec = "aborted"
    /\ run.msg = NullMsg
    /\ pending = NoPending
    /\ run.outcome = "returned"

\* the deletes among the events of a handler invocation
Deletes(events) == {i \in DOMAIN events : events[i] = "delete"}

\* C12: a message the queue hands to the dequeue handler of async_receive
\* or async_match is destroyed exactly once, and after the consumer
\* callback has returned, on the message path and on the early return; on
\* the timeout path there is no message and nothing is destroyed.
C12_DestroyedOnce ==
    run.kind # "none" =>
        IF run.msg = NullMsg
        THEN Deletes(run.events) = {}
        ELSE Deletes(run.events) = {Len(run.events)}

(***************************************************************************)
(* Atoms                                                                   *)
(* A byte string is a sequence of numbers in 0..255. The atom table        *)
(* (section 4.A) holds the interned strings: index 0 is the empty atom,    *)
(* index i > 0 is atom_table[i].                                           *)
(***************************************************************************)
\* capacity of the atom table
MaxAtoms == 2
\* longest string that is interned
MaxStrLen == 2

\* the longest byte string lookup accepts
MaxAtomBytes == 255

Rep(b, n) == [i \in 1..n |-> b]

RECURSIVE SeqsOver(_, _)
SeqsOver(B, n) ==
    IF n = 0 THEN {<<>>}
    ELSE LET S == SeqsOver(B, n - 1)
         IN S \cup {Append(x, b) : x \in {y \in S : Len(y) = n - 1}, b \in B}

\* atom_table().lookup(s)
lookup(t, s) ==
    IF Len(s) = 0 THEN [status |-> "ok", index |-> 0, table |-> t]
    ELSE IF Len(s) > MaxAtomBytes
    THEN [status |-> "BadArgument", index |-> 0, table |-> t]
    ELSE IF \E i \in DOMAIN t : t[i] = s
    THEN [status |-> "ok", index |-> CHOOSE i \in DOMAIN t : t[i] = s,
          table |-> t]
    ELSE IF Len(t) >= MaxAtoms
    THEN [status |-> "TableFull", index |-> 0, table |-> t]
    ELSE [status |-> "ok", index |-> Len(t) + 1, table |-> Append(t, s)]

\* atom_table()[index]
to_string(t, index) == IF index = 0 THEN <<>> ELSE t[index]

\* std::string(s) of a C string: the bytes before the first NUL
c_string(s) ==
    LET z == {i \in DOMAIN s : s[i] = 0}
    IN IF z = {} THEN s ELSE SubSeq(s, 1, Min(z) - 1)

\* atom(): the empty atom
atom_null == [status |-> "ok", index |-> 0]

\* atom(const std::string&) without the lookup
atom_string_null(t, s) == [status |-> "ok", index |-> 0, table |-> t]

\* atom(const std::string&), atom(const char*, size_t)
atom_string(t, s) == lookup(t, s)

\* atom(const char*)
atom_c_str(t, s) == lookup(t, c_string(s))

\* the strings atoms are made of: short ones with a NUL byte among them,
\* the longest one lookup accepts and the shortest one it refuses
InternBytes == {0, 97}
AtomStrings ==
    SeqsOver(InternBytes, MaxStrLen)
    \cup {Rep(97, MaxAtomBytes), Rep(97, MaxAtomBytes + 1)}

AtomDefault ==
    /\ call' = [op |-> "atom", ctor |-> "null", s |-> <<>>,
                status |-> atom_null.status, index |-> atom_null.index]
    /\ UNCHANGED atom_table
    /\ UNCHANGED <<mbox_vars, handles, blobs>>

AtomString ==
    \E s \in AtomStrings :
        LET a == atom_string(atom_table, s)
        IN /\ call' = [op |-> "atom", ctor |-> "string", s |-> s,
                       status |-> a.status, index |-> a.index]
           /\ atom_table' = a.table
           /\ UNCHANGED <<mbox_vars, handles, blobs>>

AtomCStr ==
    \E s \in AtomStrings :
        LET a == atom_c_str(atom_table, s)
        IN /\ call' = [op |-> "atom", ctor |-> "c_str", s |-> c_string(s),
                       status |-> a.status, index |-> a.index]
           /\ atom_table' = a.table
           /\ UNCHANGED <<mbox_vars, handles, blobs>>

NextAtom == AtomDefault \/ AtomString \/ AtomCStr

\* the atom table of a process that has made no mailbox call
InitAtom == Init /\ m_name = EmptyAtom

SpecAtom == InitAtom /\ [][NextAtom]_vars

\* C13: interning is stable and injective: an atom made of the empty
\* string has index 0, one made of a non-empty string has an index above 0
\* that maps to exactly that string, no two indices map to the same string
\* (so two lookups give the same index exactly when their strings are
\* equal), and an index that has been issued keeps its string.
C13_InterningStable ==
    /\ [](/\ \A i, j \in DOMAIN atom_table :
                atom_table[i] = atom_table[j] => i = j
          /\ \A i \in DOMAIN atom_table : atom_table[i] # <<>>
          /\ (call.op = "atom" /\ call.status = "ok") =>
                /\ call.index = 0 <=> call.s = <<>>
                /\ call.index \in 0..Len(atom_table)
                /\ to_string(atom_table, call.index) = call.s)
    /\ [][\A i \in DOMAIN atom_table :
            i \in DOMAIN atom_table' /\ atom_table'[i] = atom_table[i]]_vars

\* a string looked up a second time, after another one was interned, has
\* got the index it got first
C13_Witness ==
    /\ Len(atom_table) = 2
    /\ call.op = "atom"
    /\ call.status = "ok"
    /\ call.index = 1

(***************************************************************************)
(* The atom codec                                                          *)
(* Memory is a sequence of bytes, an offset counts from 0: the byte at     *)
(* offset o is mem[o + 1]. A decode is given the buffer and its size; the  *)
(* memory holds the buffer and the bytes that happen to lie behind it      *)
(* (a read past the buffer finds those, a read past the memory faults).    *)
(***************************************************************************)
ERL_ATOM_EXT == 100
ERL_SMALL_ATOM_EXT == 115
MAXATOMLEN == 256

\* longest buffer handed to a decode
MaxBufLen == 4

\* store_be with the bytes in little-endian order
store_le(n, w) == [i \in 1..w |-> (n \div (256 ^ (i - 1))) % 256]

\* store_be<T>: the w = sizeof(T) bytes of n, most significant first
store_be(n, w) == [i \in 1..w |-> (n \div (256 ^ (w - i))) % 256]

\* cast_be<T>: the unsigned number the bytes bs hold, most significant first
RECURSIVE cast_be(_)
cast_be(bs) ==
    IF bs = <<>> THEN 0
    ELSE 256 * cast_be(SubSeq(bs, 1, Len(bs) - 1)) + bs[Len(bs)]

\* put8, put16be: the bytes written at the cursor, which advances by as many
put8(n) == store_be(n, 1)
put16be(n) == store_be(n, 2)

\* the length prefix read for every known tag as get16be
atom_len_width_wide(tag) ==
    CASE tag = ERL_ATOM_EXT       -> 2
      [] tag = ERL_SMALL_ATOM_EXT -> 2
      [] OTHER                    -> 0

\* the switch of the decoding constructor: the width of the length prefix
\* read by get16be resp. get8, 0 for the default case
atom_len_width(tag) ==
    CASE tag = ERL_ATOM_EXT       -> 2
      [] tag = ERL_SMALL_ATOM_EXT -> 1
      [] OTHER                    -> 0

\* atom(const char* a_buf, int& idx, size_t a_size) on the table t. ndebug
\* tells whether the build has BOOST_ASSERT compiled out. read_end is the
\* offset behind the last byte read.
atom_decode(t, mem, idx, a_size, ndebug) ==
    LET fail(st, re) == [status |-> st, index |-> 0, table |-> t,
                         idx |-> idx, read_end |-> re]
    IN IF idx + 1 > Len(mem) THEN fail("fault", idx + 1)
       ELSE
       LET tag == mem[idx + 1]
           w == atom_len_width(tag)
       IN IF w = 0 THEN fail("Decode", idx + 1)
          ELSE IF idx + 1 + w > Len(mem) THEN fail("fault", idx + 1 + w)
          ELSE
          LET len == cast_be(SubSeq(mem, idx + 2, idx + 1 + w))
              end == idx + 1 + w + len
          IN IF end > Len(mem) THEN fail("fault", end)
             ELSE
             LET a == lookup(t, SubSeq(mem, idx + 2 + w, end))
             IN IF a.status # "ok" THEN fail(a.status, end)
                ELSE [status |-> IF ~ndebug /\ end > a_size
                                 THEN "abort" ELSE "ok",
                      index |-> a.index, table |-> a.table,
                      idx |-> end, read_end |-> end]

\* atom::encode_size()
atom_encode_size(t, index) == 3 + Len(to_string(t, index))

\* what every byte of a buffer holds before an encode writes to it
FillByte == 170

\* the bytes atom::encode writes: tag, length, the bytes of the atom
atom_bytes(t, index) ==
    LET str == to_string(t, index)
        len == Min({MAXATOMLEN, Len(str)})
    IN put8(ERL_ATOM_EXT) \o put16be(len) \o SubSeq(str, 1, len)

\* a write beyond the writable memory stops the call: idx is as it was,
\* the memory from idx on holds the bytes written so far, then what it held
encode_fault(written, idx, room) ==
    [status |-> "fault",
     emitted |-> written \o Rep(FillByte, room - idx - Len(written)),
     idx |-> idx]

\* atom::encode(char* buf, int& idx, size_t size). The code never tests
\* size before it writes; room is the number of bytes that can be written
\* from buf on (size of them are the buffer). The result is the set of the
\* outcomes of the call. When all bytes can be written: emitted are the
\* bytes written from offset idx on, idx is advanced, and the assertion of
\* a debug build aborts if idx is beyond size. A write that reaches beyond
\* room faults; how much of a store or of the memmove that crosses the end
\* has been written by then is not defined.
atom_encode(t, index, idx, size, room, ndebug) ==
    LET out == atom_bytes(t, index)
        len == Len(out) - 3
    IN IF idx + 1 > room
       THEN {encode_fault(<<>>, idx, idx)}
       ELSE IF idx + 3 > room
       THEN {encode_fault(SubSeq(out, 1, 1 + k), idx, room) :
                k \in {0, room - idx - 1}}
       ELSE IF idx + 3 + len > room
       THEN {encode_fault(SubSeq(out, 1, 3 + k), idx, room) :
                k \in 0..(room - idx - 3)}
       ELSE {[status |-> IF ~ndebug /\ idx + Len(out) > size
                        THEN "abort" ELSE "ok",
              emitted |-> out, idx |-> idx + Len(out)]}

\* tables the calls below start from: each is what atom constructors leave
InitTables ==
    {<<>>, << <<97>> >>, << <<97, 64, 98>> >>,
     << <<0, 97>>, Rep(97, MaxAtomBytes) >>}

\* buffers: every short one over a few bytes, and long ones around the
\* greatest atom length
BufBytes == {0, 1, 97, ERL_ATOM_EXT, ERL_SMALL_ATOM_EXT}
Buffers ==
    SeqsOver(BufBytes, MaxBufLen)
    \cup {put8(ERL_ATOM_EXT) \o put16be(MaxAtomBytes) \o Rep(97, MaxAtomBytes),
          put8(ERL_SMALL_ATOM_EXT) \o put8(MaxAtomBytes)
              \o Rep(97, MaxAtomBytes),
          put8(ERL_ATOM_EXT) \o put16be(MaxAtomBytes + 1)
              \o Rep(97, MaxAtomBytes + 1),
          put8(ERL_ATOM_EXT) \o put16be(MaxAtomBytes + 1)
              \o Rep(97, MaxAtomBytes)}
Beyond == {<<>>, <<97>>}

InitTerm ==
    /\ Init
    /\ m_name = EmptyAtom

AtomDecode ==
    /\ call.op = "none"
    /\ \E t \in InitTables, buf \in Buffers, beyond \in Beyond,
          idx \in 0..1, ndebug \in BOOLEAN :
        /\ idx <= Len(buf)
        /\ LET d == atom_decode(t, buf \o beyond, idx, Len(buf), ndebug)
           IN /\ call' = [op |-> "decode", table |-> t, mem |-> buf \o beyond,
                          idx_in |-> idx, a_size |-> Len(buf),
                          ndebug |-> ndebug, status |-> d.status,
                          index |-> d.index, idx |-> d.idx,
                          read_end |-> d.read_end]
              /\ atom_table' = d.table
    /\ UNCHANGED <<mbox_vars, handles, blobs>>

AtomEncode ==
    /\ call.op = "none"
    /\ \E t \in InitTables, idx \in 0..1, slack \in {-1, 0, 1},
          ndebug \in BOOLEAN, beyond \in Beyond :
        \E index \in 0..Len(t) :
          LET size == idx + atom_encode_size(t, index) + slack
              room == size + Len(beyond)
          IN \E e \in atom_encode(t, index, idx, size, room, ndebug) :
             /\ call' = [op |-> "encode", table |-> t, index |-> index,
                         idx_in |-> idx, size |-> size, room |-> room,
                         ndebug |-> ndebug,
                         status |-> e.status, emitted |-> e.emitted,
                         idx |-> e.idx]
             /\ atom_table' = t
    /\ UNCHANGED <<mbox_vars, handles, blobs>>

(***************************************************************************)
(* Atom comparison                                                         *)
(***************************************************************************)
\* x before y in the lexicographic order of byte strings
RECURSIVE LexLess(_, _)
LexLess(x, y) ==
    IF y = <<>> THEN FALSE
    ELSE IF x = <<>> THEN TRUE
    ELSE IF Head(x) # Head(y) THEN Head(x) < Head(y)
    ELSE LexLess(Tail(x), Tail(y))

\* strcmp of the C strings two byte strings start with: the bytes up to the
\* first NUL are compared as unsigned char. Only the sign of the result is
\* defined, which -1, 0 and 1 stand for.
strcmp(x, y) ==
    LET a == c_string(x)
        b == c_string(y)
    IN IF a = b THEN 0 ELSE IF LexLess(a, b) THEN -1 ELSE 1

\* atom::operator==
atom_eq(i, j) == i = j

\* atom::operator<
atom_less(t, i, j) == strcmp(to_string(t, i), to_string(t, j)) < 0

\* atom::compare
atom_compare(t, i, j) ==
    IF i = j THEN 0 ELSE strcmp(to_string(t, i), to_string(t, j))

\* tables of two atoms over a NUL byte, a letter and a byte above 127
CmpBytes == {0, 97, 200}
CmpTables ==
    {t \in {<<x, y>> : x, y \in SeqsOver(CmpBytes, MaxStrLen) \ {<<>>}} :
        t[1] # t[2]}

AtomCompare ==
    /\ call.op = "none"
    /\ \E t \in CmpTables : \E a, b \in 0..Len(t) :
        /\ call' = [op |-> "compare", table |-> t, a |-> a, b |-> b,
                    eq |-> atom_eq(a, b), less |-> atom_less(t, a, b),
                    cmp |-> atom_compare(t, a, b)]
        /\ atom_table' = t
    /\ UNCHANGED <<mbox_vars, handles, blobs>>

(***************************************************************************)
(* Node names and ports                                                    *)
(***************************************************************************)
MAXNODELEN == 255
ERL_NEW_PORT_EXT == 89
\* 0x0fffffff and 0x03
id_mask == 268435455
creation_mask == 3

\* n & mask for a mask of the form 2^k - 1, n in two's complement
BitAnd(n, mask) == n % (mask + 1)

\* conversion of an int to uint8_t
to_uint8(n) == n % 256

\* detail::check_node_length: what it throws
check_node_length(len) ==
    IF len > MAXNODELEN THEN "BadArgument"
    ELSE IF len = 0 THEN "BadArgument"
    ELSE "ok"

\* std::string::find(char): the offset of the first c in s, npos if none
npos == -1
find(s, c) ==
    LET z == {i \in DOMAIN s : s[i] = c}
    IN IF z = {} THEN npos ELSE Min(z) - 1

\* make_node_name(const std::string& s)
make_node_name(t, s) ==
    IF find(s, 64) = 0
    THEN [status |-> "BadArgument", index |-> 0, table |-> t]
    ELSE IF check_node_length(Len(s)) # "ok"
    THEN [status |-> check_node_length(Len(s)), index |-> 0, table |-> t]
    ELSE atom_string(t, s)

\* port(): m_blob is nullptr
NullBlob == [null |-> TRUE, node |-> 0, id |-> 0, creation |-> 0]

\* port::init that stores id and creation as given
port_init_unmasked(node, id, creation) ==
    [null |-> FALSE, node |-> node, id |-> id, creation |-> creation]

\* port::init: the blob it allocates
port_init(node, id, creation) ==
    [null |-> FALSE, node |-> node, id |-> BitAnd(id, id_mask),
     creation |-> BitAnd(creation, creation_mask)]

\* port(const char* node, int id, int creation, alloc)
port_c_str(t, node, id, creation) ==
    LET n == Len(c_string(node))
    IN IF check_node_length(n) # "ok"
       THEN [status |-> check_node_length(n), blob |-> NullBlob, table |-> t]
       ELSE LET l_node == atom_string(t, c_string(node))
            IN IF l_node.status # "ok"
               THEN [status |-> l_node.status, blob |-> NullBlob,
                     table |-> t]
               ELSE [status |-> "ok",
                     blob |-> port_init(l_node.index, id, to_uint8(creation)),
                     table |-> l_node.table]

\* port(const atom& node, int id, int creation, alloc)
port_atom(t, node, id, creation) ==
    IF check_node_length(Len(to_string(t, node))) # "ok"
    THEN [status |-> check_node_length(Len(to_string(t, node))),
          blob |-> NullBlob, table |-> t]
    ELSE [status |-> "ok",
          blob |-> port_init(node, id, to_uint8(creation)), table |-> t]

\* port::node(), port::id(), port::creation()
port_node(b) == IF b.null THEN 0 ELSE b.node
port_id(b) == IF b.null THEN 0 ELSE b.id
port_creation(b) == IF b.null THEN 0 ELSE b.creation

\* port::encode_size()
port_encode_size(t, b) == 9 + Len(to_string(t, port_node(b)))

put32be(n) == store_be(n, 4)

\* port::encode: the bytes of the newer port encoding (section 6): the tag,
\* the node atom, the id and the creation in four bytes each
port_encode(t, b) ==
    put8(ERL_NEW_PORT_EXT)
    \o atom_bytes(t, port_node(b))
    \o put32be(port_id(b))
    \o put32be(port_creation(b))

\* node names: short ones with and without '@', and long ones around the
\* greatest length
NodeBytes == {0, 64, 97}
NodeStrings ==
    SeqsOver(NodeBytes, MaxStrLen)
    \cup {Rep(97, MAXNODELEN - 1) \o <<64>>, Rep(97, MAXNODELEN),
          Rep(97, MAXNODELEN) \o <<64>>}
PortIds ==
    {0, 1, id_mask, id_mask + 1, id_mask + 2, 2147483647, -1, -2147483647}
Creations == {0, 1, 2, 3, 4, 7, 255, 256, 258, -1}

MakeNodeName ==
    /\ call.op = "none"
    /\ \E t \in InitTables, s \in NodeStrings :
        LET a == make_node_name(t, s)
        IN /\ call' = [op |-> "make_node_name", table |-> t, s |-> s,
                       status |-> a.status, index |-> a.index]
           /\ atom_table' = a.table
    /\ UNCHANGED <<mbox_vars, handles, blobs>>

\* the object and the body a constructor that does not throw leaves: the
\* first object, pointing to the first body, which has one reference
PortObject(p) ==
    IF p.status = "ok"
    THEN /\ handles' = [handles EXCEPT ![1] = [live |-> TRUE, m_blob |-> 1]]
         /\ blobs' = [blobs EXCEPT ![1] = [alloc |-> TRUE, rc |-> 1,
                                           freed |-> 0]]
    ELSE UNCHANGED <<handles, blobs>>

PortNew ==
    /\ call.op = "none"
    /\ \E t \in InitTables, node \in NodeStrings, id \in PortIds,
          creation \in Creations :
        LET p == port_c_str(t, node, id, creation)
        IN /\ call' = [op |-> "port", table |-> t, node |-> c_string(node),
                       id |-> id, creation |-> creation,
                       status |-> p.status, blob |-> p.blob]
           /\ atom_table' = p.table
           /\ PortObject(p)
    /\ UNCHANGED mbox_vars

PortNewAtom ==
    /\ call.op = "none"
    /\ \E t \in InitTables, id \in PortIds, creation \in Creations :
        \E node \in 0..Len(t) :
          LET p == port_atom(t, node, id, creation)
          IN /\ call' = [op |-> "port", table |-> t,
                         node |-> to_string(t, node), id |-> id,
                         creation |-> creation, status |-> p.status,
                         blob |-> p.blob]
             /\ atom_table' = p.table
             /\ PortObject(p)
    /\ UNCHANGED mbox_vars

\* encode_size and encode of a port that has been made
PortEncode ==
    /\ call.op = "none"
    /\ \E t \in InitTables, id \in PortIds, creation \in Creations :
        \E node \in 1..Len(t) :
          LET p == port_atom(t, node, id, creation)
          IN /\ p.status = "ok"
             /\ call' = [op |-> "port_encode", table |-> t, blob |-> p.blob,
                         encode_size |-> port_encode_size(t, p.blob),
                         emitted |-> port_encode(t, p.blob)]
             /\ atom_table' = p.table
    /\ UNCHANGED <<mbox_vars, handles, blobs>>

(***************************************************************************)
(* The endian primitives on a buffer with a cursor.  An unsigned value of  *)
(* sizeof(T) = w bytes is held as its 16-bit digits, most significant      *)
(* first (one digit below 256 for w = 1), so that all 32 and 64 bit values *)
(* can be written down; s is the offset of the cursor in the memory mem.   *)
(***************************************************************************)
\* highest offset the cursor starts at
MaxOffset == 1

\* the bytes store_be<T> writes for the value n of w bytes
uint_store_be(n, w) ==
    IF w = 1 THEN store_be(n[1], 1)
    ELSE [k \in 1..w |-> store_be(n[(k + 1) \div 2], 2)[2 - (k % 2)]]

\* the value cast_be<T> loads from the w bytes bs
uint_cast_be(bs) ==
    IF Len(bs) = 1 THEN <<cast_be(bs)>>
    ELSE [i \in 1..(Len(bs) \div 2) |-> cast_be(SubSeq(bs, 2 * i - 1, 2 * i))]

\* store_be<T>(s, n): the memory after the bytes of n are written at s
store_be_at(mem, s, n, w) ==
    [i \in 1..Len(mem) |->
        IF i \in (s + 1)..(s + w) THEN uint_store_be(n, w)[i - s] ELSE mem[i]]

\* cast_be<T>(s)
cast_be_at(mem, s, w) == uint_cast_be(SubSeq(mem, s + 1, s + w))

\* put_be that leaves the cursor where it was
put_be_still(mem, s, n, w) == [mem |-> store_be_at(mem, s, n, w), s |-> s]

\* put_be<T>(s, n)
put_be(mem, s, n, w) == [mem |-> store_be_at(mem, s, n, w), s |-> s + w]

\* get_be<T>(s, n)
get_be(mem, s, w) == [n |-> cast_be_at(mem, s, w), s |-> s + w]

\* put64be, and put8, put16be, put32be with their cursor
put64be(mem, s, n) == put_be(mem, s, n, 8)
put(mem, s, n, w) ==
    IF w = 8 THEN put64be(mem, s, n) ELSE put_be(mem, s, n, w)

get8(mem, s) == get_be(mem, s, 1)
get16be(mem, s) == get_be(mem, s, 2)
get32be(mem, s) == get_be(mem, s, 4)
get64be(mem, s) == get_be(mem, s, 8)
get(mem, s, w) ==
    IF w = 1 THEN get8(mem, s)
    ELSE IF w = 2 THEN get16be(mem, s)
    ELSE IF w = 4 THEN get32be(mem, s)
    ELSE get64be(mem, s)

\* sizeof(T) of uint8_t, uint16_t, uint32_t, uint64_t
Widths == {1, 2, 4, 8}
Digits == {0, 1, 255, 256, 4660, 65535}
\* the values of w bytes that are tried
UintValues(w) ==
    IF w = 1 THEN {<<d>> : d \in {x \in Digits : x < 256}}
    ELSE {n \in SeqsOver(Digits, w \div 2) : Len(n) = w \div 2}
\* the buffer before the call: no byte of it is one the values hold
EndianMem == [i \in 1..(MaxOffset + 9) |-> FillByte]

\* put at the cursor s, then get from s; store_be at s, then cast_be at s
EndianRoundTrip ==
    /\ call.op = "none"
    /\ \E w \in Widths, s \in 0..MaxOffset :
        \E n \in UintValues(w) :
          LET p == put(EndianMem, s, n, w)
              g == get(p.mem, s, w)
              m == store_be_at(EndianMem, s, n, w)
          IN call' = [op |-> "endian", w |-> w, n |-> n, s |-> s,
                      mem |-> EndianMem, put_mem |-> p.mem, put_s |-> p.s,
                      get_n |-> g.n, get_s |-> g.s,
                      store_mem |-> m, cast_n |-> cast_be_at(m, s, w)]
    /\ UNCHANGED <<mbox_vars, atom_table, handles, blobs>>

\* port::operator==
port_eq(a, b) ==
    /\ port_id(a) = port_id(b)
    /\ atom_eq(port_node(a), port_node(b))
    /\ port_creation(a) = port_creation(b)

\* port::operator<
port_less(t, a, b) ==
    LET n == atom_compare(t, port_node(a), port_node(b))
    IN IF n > 0 THEN TRUE
       ELSE IF n < 0 THEN FALSE
       ELSE IF port_id(a) < port_id(b) THEN TRUE
       ELSE IF port_id(a) > port_id(b) THEN FALSE
       ELSE IF port_creation(a) < port_creation(b) THEN TRUE
       ELSE IF port_creation(a) > port_creation(b) THEN FALSE
       ELSE FALSE

\* the ports compared: the null port and the ports made of an atom of the
\* table, an id and a creation
CmpIds == {0, 1}
CmpCreations == {0, 1}
CmpPorts(t) ==
    {NullBlob} \cup
    {port_atom(t, node, id, creation).blob :
        node \in 1..Len(t), id \in CmpIds, creation \in CmpCreations}

PortCompare ==
    /\ call.op = "none"
    /\ \E t \in CmpTables : \E a, b \in CmpPorts(t) :
        /\ call' = [op |-> "port_compare", table |-> t, a |-> a, b |-> b,
                    eq |-> port_eq(a, b), less |-> port_less(t, a, b),
                    greater |-> port_less(t, b, a)]
        /\ atom_table' = t
    /\ UNCHANGED <<mbox_vars, handles, blobs>>

NextTerm ==
    \/ EndianRoundTrip
    \/ PortCompare
    \/ AtomDecode
    \/ AtomEncode
    \/ AtomCompare
    \/ MakeNodeName
    \/ PortNew
    \/ PortNewAtom
    \/ PortEncode

SpecTerm == InitTerm /\ [][NextTerm]_vars

\* a decode whose input holds, inside the buffer, a known tag, its length
\* prefix and as many bytes as the prefix says, at most 255
WellFormed(c) ==
    /\ c.idx_in + 1 <= c.a_size
    /\ atom_len_width(c.mem[c.idx_in + 1]) # 0
    /\ LET w == atom_len_width(c.mem[c.idx_in + 1])
       IN /\ c.idx_in + 1 + w <= c.a_size
          /\ LET len == cast_be(SubSeq(c.mem, c.idx_in + 2, c.idx_in + 1 + w))
             IN /\ len <= MaxAtomBytes
                /\ c.idx_in + 1 + w + len <= c.a_size

\* the bytes of the atom a well-formed input holds
InputBytes(c) ==
    LET w == atom_len_width(c.mem[c.idx_in + 1])
        len == cast_be(SubSeq(c.mem, c.idx_in + 2, c.idx_in + 1 + w))
    IN SubSeq(c.mem, c.idx_in + 2 + w, c.idx_in + 1 + w + len)

\* C14: an atom of at most 255 bytes that is encoded and decoded again is
\* the same atom, and the decode advances the cursor by exactly the bytes
\* the encode wrote; and the atom decoded from a well-formed ATOM_EXT input
\* is encoded to the very bytes it was decoded from.
C14_AtomRoundTrip ==
    /\ (call.op = "encode" /\ call.status = "ok"
        /\ Len(to_string(call.table, call.index)) <= MaxAtomBytes) =>
          LET mem == Rep(0, call.idx_in) \o call.emitted
              d == atom_decode(call.table, mem, call.idx_in, Len(mem),
                               call.ndebug)
          IN /\ d.status = "ok"
             /\ d.index = call.index
             /\ d.table = call.table
             /\ d.idx = call.idx
             /\ call.idx = call.idx_in + Len(call.emitted)
    /\ (call.op = "decode" /\ call.status = "ok" /\ WellFormed(call)
        /\ call.mem[call.idx_in + 1] = ERL_ATOM_EXT) =>
          \A e \in atom_encode(atom_table, call.index, call.idx_in,
                               call.a_size, call.a_size, call.ndebug) :
             /\ e.status = "ok"
             /\ e.emitted = SubSeq(call.mem, call.idx_in + 1, call.idx)
             /\ e.idx = call.idx

\* an atom with a NUL byte in it has been encoded at offset 1
C14_Witness ==
    /\ call.op = "encode"
    /\ call.status = "ok"
    /\ call.idx_in = 1
    /\ call.emitted = <<ERL_ATOM_EXT, 0, 2, 0, 97>>

\* C15: a decode at offset idx of a well-formed input (tag 100 with a
\* two-byte big-endian length, or tag 115 with a one-byte length, and the
\* bytes the length announces inside the buffer) succeeds unless the table
\* is full, yields the atom of exactly the bytes behind the prefix,
\* interning nothing else, and advances idx by 3 + len resp. 2 + len, which
\* is not beyond the buffer size.
C15_DecodeAccepts ==
    (call.op = "decode" /\ WellFormed(call)) =>
        /\ call.status \in {"ok", "TableFull"}
        /\ call.status = "ok" =>
            /\ to_string(atom_table, call.index) = InputBytes(call)
            /\ atom_table \in {call.table,
                               Append(call.table, InputBytes(call))}
            /\ call.idx = call.idx_in + Len(InputBytes(call))
                          + (IF call.mem[call.idx_in + 1] = ERL_ATOM_EXT
                             THEN 3 ELSE 2)
            /\ call.idx <= call.a_size

\* a SMALL_ATOM_EXT input at offset 1 has been decoded into a new atom
C15_Witness ==
    /\ call.op = "decode"
    /\ call.status = "ok"
    /\ call.idx_in = 1
    /\ call.mem[2] = ERL_SMALL_ATOM_EXT
    /\ call.idx = 4
    /\ Len(atom_table) = Len(call.table) + 1

\* C16: a decode of an input that is not well-formed (unknown tag, buffer
\* too short for the tag or the length prefix, length beyond the remaining
\* bytes, length above 255) fails with a Decode error, without a read
\* beyond the buffer size and without interning.
C16_DecodeRejects ==
    (call.op = "decode" /\ ~WellFormed(call)) =>
        /\ call.status = "Decode"
        /\ call.read_end <= call.a_size
        /\ atom_table = call.table

\* C17: encode_size agrees with what is emitted: encoding an atom advances
\* idx by exactly the atom's encode_size() and writes no byte at or beyond
\* idx + encode_size(); the encode_size() of a port is the length of the
\* newer port encoding of that port.
C17_EncodeSizeAgrees ==
    /\ (call.op = "encode" /\ call.status = "ok") =>
        /\ call.idx = call.idx_in + atom_encode_size(call.table, call.index)
        /\ Len(call.emitted) <= atom_encode_size(call.table, call.index)
    /\ call.op = "port_encode" => call.encode_size = Len(call.emitted)

\* the atoms of a compare call and of its table
Atoms(c) == 0..Len(c.table)

\* C18: comparison of atoms is a total order that agrees with equality:
\* compare(a, b) is 0 exactly when a == b, a < b exactly when the bytes of
\* a come before those of b in lexicographic order, two distinct atoms are
\* ordered one way and never both ways, and < is transitive.
C18_AtomTotalOrder ==
    call.op = "compare" =>
        LET t == call.table
            a == call.a
            b == call.b
        IN /\ call.cmp = 0 <=> call.eq
           /\ call.eq <=> to_string(t, a) = to_string(t, b)
           /\ call.less <=> LexLess(to_string(t, a), to_string(t, b))
           /\ ~call.eq => (call.less \/ atom_less(t, b, a))
           /\ ~(call.less /\ atom_less(t, b, a))
           /\ \A c \in Atoms(call) :
                (call.less /\ atom_less(t, b, c)) => atom_less(t, a, c)

\* C19: make_node_name(s) returns an atom, whose bytes are s, exactly when
\* s has a length in 1..255 and contains '@', and otherwise fails with
\* BadArgument (the atom table having room).
C19_NodeNameChecked ==
    (call.op = "make_node_name" /\ call.status # "TableFull") =>
        /\ call.status = "ok" <=>
             (Len(call.s) \in 1..255 /\ \E i \in DOMAIN call.s : call.s[i] = 64)
        /\ call.status # "ok" => call.status = "BadArgument"
        /\ call.status = "ok" => to_string(atom_table, call.index) = call.s

\* C20: a port made with a node of 1..255 bytes (the atom table having
\* room) has as id() the low 28 bits of the id given, as creation() the
\* creation given modulo 4 and as node() the atom of the node given; with
\* an empty or a longer node the construction fails with BadArgument and
\* no port is made.
C20_PortFields ==
    call.op = "port" =>
        IF Len(call.node) \in 1..255
        THEN /\ call.status \in {"ok", "TableFull"}
             /\ call.status = "ok" =>
                 /\ ~call.blob.null
                 /\ port_id(call.blob) \in 0..(2 ^ 28 - 1)
                 /\ (call.id - port_id(call.blob)) % (2 ^ 28) = 0
                 /\ port_creation(call.blob) \in 0..3
                 /\ (call.creation - port_creation(call.blob)) % 4 = 0
                 /\ to_string(atom_table, port_node(call.blob)) = call.node
        ELSE /\ call.status = "BadArgument"
             /\ call.blob = NullBlob
             /\ atom_table = call.table

\* a port has been made of an id above 28 bits and a creation above 3
C20_Witness ==
    /\ call.op = "port"
    /\ call.status = "ok"
    /\ call.id = 2147483647
    /\ call.creation = 258
    /\ port_id(call.blob) = id_mask
    /\ port_creation(call.blob) = 2

\* (node name bytes, id, creation) of a port of the table t
PortKey(t, b) == <<to_string(t, port_node(b)), port_id(b), port_creation(b)>>

\* ascending lexicographic order of two such triples
KeyLess(x, y) ==
    \/ LexLess(x[1], y[1])
    \/ x[1] = y[1] /\ x[2] < y[2]
    \/ x[1] = y[1] /\ x[2] = y[2] /\ x[3] < y[3]

\* C21: a < b on ports is the ascending lexicographic order of (node name
\* bytes, id, creation), a == b holds exactly when the three are equal, and
\* exactly one of a < b, b < a, a == b holds, so that an ordered set keeps
\* one copy of equal ports.
C21_PortTotalOrder ==
    call.op = "port_compare" =>
        LET x == PortKey(call.table, call.a)
            y == PortKey(call.table, call.b)
        IN /\ call.eq <=> x = y
           /\ call.less <=> KeyLess(x, y)
           /\ call.greater <=> KeyLess(y, x)
           /\ \/ call.less /\ ~call.greater /\ ~call.eq
              \/ ~call.less /\ call.greater /\ ~call.eq
              \/ ~call.less /\ ~call.greater /\ call.eq

\* byte k, counted from the most significant, of the value n of w bytes
ByteOf(n, w, k) ==
    IF w = 1 THEN n[1]
    ELSE IF k % 2 = 1 THEN n[(k + 1) \div 2] \div 256
    ELSE n[k \div 2] % 256

\* C24: for the widths of 8, 16, 32 and 64 bits, put writes the w/8 bytes
\* of the value, most significant first, and no other byte, and moves the
\* write cursor forward by w/8; get on these bytes gives the value back and
\* moves the read cursor forward by w/8; store_be writes the same bytes and
\* cast_be reads the same value.
C24_EndianRoundTrip ==
    call.op = "endian" =>
        /\ \A i \in DOMAIN call.mem :
            call.put_mem[i] =
                IF i \in (call.s + 1)..(call.s + call.w)
                THEN ByteOf(call.n, call.w, i - call.s)
                ELSE call.mem[i]
        /\ Len(call.put_mem) = Len(call.mem)
        /\ call.put_s = call.s + call.w
        /\ call.get_n = call.n
        /\ call.get_s = call.s + call.w
        /\ call.store_mem = call.put_mem
        /\ call.cast_n = call.n

\* a 64-bit value whose bytes all differ from the buffer's and among the
\* halves was put at offset 1 and read back
C24_Witness ==
    /\ call.op = "endian"
    /\ call.w = 8
    /\ call.s = 1
    /\ call.n = <<4660, 255, 256, 65535>>
    /\ SubSeq(call.put_mem, 2, 9) = <<18, 52, 0, 255, 1, 0, 255, 255>>
    /\ call.put_mem[1] = FillByte
    /\ call.put_mem[10] = FillByte
    /\ call.get_n = call.n

(***************************************************************************)
(* Port handles and their shared body.  A port object holds m_blob, a      *)
(* pointer to a counted body or nullptr.  The body is created with count   *)
(* 1; inc_rc adds one; release takes one off and destroys the body when    *)
(* the count reaches 0.  blobs[b].freed counts the destructions of b.      *)
(***************************************************************************)
\* new blob<port_blob, Alloc>(1, alloc)
blob_new == [alloc |-> TRUE, rc |-> 1, freed |-> 0]

\* blob::inc_rc
blob_inc_rc(B, b) == [B EXCEPT ![b].rc = @ + 1]

\* blob::release
blob_release(B, b) ==
    LET rc == B[b].rc - 1
    IN [B EXCEPT ![b].rc = rc,
                 ![b].freed = IF rc = 0 THEN @ + 1 ELSE @]

\* port::release
port_release(H, B, h) ==
    IF H[h].m_blob # nullptr THEN blob_release(B, H[h].m_blob) ELSE B

\* port()
port_default(H, B, h) ==
    [handles |-> [H EXCEPT ![h] = [live |-> TRUE, m_blob |-> nullptr]],
     blobs |-> B]

\* port(node, id, creation): init allocates the body b
port_new(H, B, h, b) ==
    [handles |-> [H EXCEPT ![h] = [live |-> TRUE, m_blob |-> b]],
     blobs |-> [B EXCEPT ![b] = blob_new]]

\* port(const port& rhs)
port_copy(H, B, h, rhs) ==
    LET b == H[rhs].m_blob
    IN [handles |-> [H EXCEPT ![h] = [live |-> TRUE, m_blob |-> b]],
        blobs |-> IF b # nullptr THEN blob_inc_rc(B, b) ELSE B]

\* port(port&& rhs)
port_move(H, B, h, rhs) ==
    [handles |-> [H EXCEPT ![h] = [live |-> TRUE, m_blob |-> H[rhs].m_blob],
                           ![rhs].m_blob = nullptr],
     blobs |-> B]

\* ~port()
port_destroy(H, B, h) ==
    [handles |-> [H EXCEPT ![h] = NoHandle],
     blobs |-> port_release(H, B, h)]

\* operator=(const port&) without the test this != &rhs
port_assign_unguarded(H, B, h, rhs) ==
    LET B1 == port_release(H, B, h)
        b == H[rhs].m_blob
    IN [handles |-> [H EXCEPT ![h].m_blob = b],
        blobs |-> IF b # nullptr THEN blob_inc_rc(B1, b) ELSE B1]

\* operator=(const port& rhs)
port_assign(H, B, h, rhs) ==
    IF h # rhs
    THEN LET B1 == port_release(H, B, h)
             b == H[rhs].m_blob
         IN [handles |-> [H EXCEPT ![h].m_blob = b],
             blobs |-> IF b # nullptr THEN blob_inc_rc(B1, b) ELSE B1]
    ELSE [handles |-> H, blobs |-> B]

\* operator=(port&& rhs)
port_move_assign(H, B, h, rhs) ==
    IF h # rhs
    THEN [handles |-> [H EXCEPT ![h].m_blob = H[rhs].m_blob,
                                ![rhs].m_blob = nullptr],
          blobs |-> port_release(H, B, h)]
    ELSE [handles |-> H, blobs |-> B]

Live == {h \in Handles : handles[h].live}
Dead == Handles \ Live
\* the body the allocator hands out next
FreeBlobs == {b \in Blobs : ~blobs[b].alloc}

\* one call on the port objects: the objects and bodies become r
PortStep(op, dst, src, r) ==
    /\ handles' = r.handles
    /\ blobs' = r.blobs
    /\ call' = [op |-> op, dst |-> dst, src |-> src]
    /\ UNCHANGED <<mbox_vars, atom_table>>

PortDefault ==
    \E h \in Dead : PortStep("default", h, h, port_default(handles, blobs, h))

\* node names given to the constructors: two that pass check_node_length
\* and the empty one, which does not
PortNodes == {<<110, 64, 104>>, <<97>>, <<>>}

\* the constructor made the port p for the object h: if it has thrown, no
\* object and no body exist; otherwise init has allocated the next body
PortConstructed(h, p) ==
    /\ IF p.status = "ok"
       THEN LET b == CHOOSE x \in FreeBlobs : \A y \in FreeBlobs : x <= y
                r == port_new(handles, blobs, h, b)
            IN handles' = r.handles /\ blobs' = r.blobs
       ELSE UNCHANGED <<handles, blobs>>
    /\ call' = [op |-> IF p.status = "ok" THEN "new" ELSE p.status,
                dst |-> h, src |-> h]
    /\ atom_table' = p.table
    /\ UNCHANGED mbox_vars

\* port(const char* node, int id, int creation): the node name is interned
PortInit ==
    /\ FreeBlobs # {}
    /\ \E h \in Dead, node \in PortNodes, id \in CmpIds,
          creation \in CmpCreations :
        PortConstructed(h, port_c_str(atom_table, node, id, creation))

\* port(const atom& node, int id, int creation)
PortInitAtom ==
    /\ FreeBlobs # {}
    /\ \E h \in Dead, node \in 0..Len(atom_table), id \in CmpIds,
          creation \in CmpCreations :
        PortConstructed(h, port_atom(atom_table, node, id, creation))

PortCopy ==
    \E h \in Dead, rhs \in Live :
        PortStep("copy", h, rhs, port_copy(handles, blobs, h, rhs))

PortMove ==
    \E h \in Dead, rhs \in Live :
        PortStep("move", h, rhs, port_move(handles, blobs, h, rhs))

PortAssign ==
    \E h \in Live, rhs \in Live :
        PortStep("assign", h, rhs, port_assign(handles, blobs, h, rhs))

PortMoveAssign ==
    \E h \in Live, rhs \in Live :
        PortStep("move_assign", h, rhs,
                 port_move_assign(handles, blobs, h, rhs))

PortDestroy ==
    \E h \in Live :
        PortStep("destroy", h, h, port_destroy(handles, blobs, h))

NextPort ==
    \/ PortDefault
    \/ PortInit
    \/ PortInitAtom
    \/ PortCopy
    \/ PortMove
    \/ PortAssign
    \/ PortMoveAssign
    \/ PortDestroy

InitPort == Init /\ m_name = EmptyAtom

SpecPort == InitPort /\ [][NextPort]_vars

\* the live port objects whose m_blob is b
HandlesOf(b) == {h \in Live : handles[h].m_blob = b}

\* C23: over every sequence of constructions, copies, moves, assignments
\* (self-assignment included) and destructions of port objects, the
\* reference count of each body is the number of live objects pointing to
\* it, the body is destroyed once, exactly when the count is 0, no live
\* object points to a destroyed body, and the source of a move to another
\* object is left null.
C23_RefCount ==
    /\ \A b \in Blobs :
        blobs[b].alloc =>
            /\ blobs[b].rc = Cardinality(HandlesOf(b))
            /\ blobs[b].freed = IF blobs[b].rc = 0 THEN 1 ELSE 0
    /\ \A h \in Live :
        handles[h].m_blob # nullptr =>
            /\ blobs[handles[h].m_blob].alloc
            /\ blobs[handles[h].m_blob].freed = 0
    /\ (call.op \in {"move", "move_assign"} /\ call.dst # call.src) =>
            handles[call.src] = [live |-> TRUE, m_blob |-> nullptr]

\* a move assignment has just destroyed the body of its target, which now
\* shares the other body with a second object, and left its source null
C23_Witness ==
    /\ call.op = "move_assign"
    /\ call.dst # call.src
    /\ handles[call.src] = [live |-> TRUE, m_blob |-> nullptr]
    /\ \E b \in Blobs : blobs[b].freed = 1 /\ blobs[b].rc = 0
    /\ \E b \in Blobs : blobs[b].rc = 2 /\ call.dst \in HandlesOf(b)

(***************************************************************************)
(* Further properties of the dispatcher                                    *)
(***************************************************************************)
\* the types do_deliver treats, or the specification names, on their own
NamedTypes == DropTypes \cup {"MONITOR_P_EXIT"} \cup ExitTypes

\* C22: a deliver of a message of any other type than LINK, UNLINK,
\* MONITOR_P, DEMONITOR_P, MONITOR_P_EXIT and the exit types appends that
\* message to the tail of the queue, once, and leaves the link set, the
\* monitor map, the name and the freed timestamp as they are (an exception
\* of push_back only sets the error flag of the queued message).
C22_DefaultEnqueues ==
    [][(DeliverStep /\ last'.msg.type \notin NamedTypes) =>
        /\ m_queue' = Append(m_queue,
                             [id |-> last'.msg.id, type |-> last'.msg.type,
                              err |-> last'.exc # "none"])
        /\ \A i \in DOMAIN m_queue : m_queue[i].id # last'.msg.id
        /\ m_links' = m_links
        /\ m_monitors' = m_monitors
        /\ m_name' = m_name
        /\ m_time_freed' = m_time_freed]_vars

\* a message of another type was delivered to a mailbox that has a link, a
\* monitor and a queued message, and is now the last of two in the queue
C22_Witness ==
    /\ last.op = "deliver"
    /\ last.msg.type \notin NamedTypes
    /\ last.exc = "none"
    /\ Len(m_queue) = 2
    /\ m_queue[2].id = last.msg.id
    /\ m_queue[1].id # last.msg.id

\* C25: once close has returned the mailbox stays torn down: whatever is
\* delivered afterwards, the link set and the monitor map stay empty and
\* nothing is queued.
C25_ClosedStaysTornDown ==
    m_time_freed # 0 =>
        /\ m_links = {}
        /\ MonitorRefs(m_monitors) = {}
        /\ m_queue = <<>>
====
